---- MODULE Spec2Model ----
(***************************************************************************)
(* State-machine model of the customer-service audio test pipeline:        *)
(*   api/routes.py              the registry test_results and its handlers *)
(*   services/test_orchestrator the six-step run over one TestResult       *)
(*   services/{tts,stt,llm}_service   the three backend wrappers           *)
(*   models/test_models.py      TestResult, TestScript.parse_content       *)
(*                                                                         *)
(* The program runs on one asyncio event loop, so a coroutine runs         *)
(* atomically from one suspension point (an awaited backend call) to the   *)
(* next.  Each action below is one such atomic block or one HTTP handler.  *)
(*                                                                         *)
(* Text is modelled as a sequence of tokens: a token is one whitespace     *)
(* character, one punctuation character, or one word.  "kehu" and "kefu"   *)
(* stand for the two Chinese role labels of the source.                    *)
(* Optional values are sequences of length 0 (None / empty dict) or 1.     *)
(***************************************************************************)
EXTENDS Integers, Sequences, FiniteSets, TLC

\* ---------------------------------------------------------------- bounds
MaxJobs == 2        \* TestResult objects created in one behaviour
MaxTime == 1        \* the clock runs over 0..MaxTime

\* ------------------------------------------------------------- constants
MaxRetry == 2               \* retry_count < 2
MinFileSize == 1024         \* file_size < 1024
MaxFileSize == 26214400     \* 25 * 1024 * 1024
ScoreLow == 0               \* max(0, ...)
ScoreHigh == 100            \* min(100, ...)

\* ------------------------------------------------------------------ text
Whitespace == {" ", "\n"}

RECURSIVE LStrip(_)
LStrip(s) == IF s # <<>> /\ Head(s) \in Whitespace THEN LStrip(Tail(s)) ELSE s

RECURSIVE RStrip(_)
RStrip(s) ==
    IF s # <<>> /\ s[Len(s)] \in Whitespace
    THEN RStrip(SubSeq(s, 1, Len(s) - 1))
    ELSE s

\* str.strip()
Strip(s) == RStrip(LStrip(s))

\* str.lower() on one token
LowerTok(t) ==
    CASE t = "CUSTOMER" -> "customer"
      [] t = "Agent" -> "agent"
      [] OTHER -> t

\* str.lower()
Lower(s) == [k \in 1..Len(s) |-> LowerTok(s[k])]

\* index of the first occurrence of token c in s, 0 when absent
RECURSIVE IndexOf(_, _, _)
IndexOf(s, c, k) ==
    IF k > Len(s) THEN 0
    ELSE IF s[k] = c THEN k
    ELSE IndexOf(s, c, k + 1)

\* str.split("\n")
RECURSIVE SplitLines(_)
SplitLines(s) ==
    LET k == IndexOf(s, "\n", 1) IN
    IF k = 0 THEN <<s>>
    ELSE <<SubSeq(s, 1, k - 1)>> \o SplitLines(SubSeq(s, k + 1, Len(s)))

\* faulty variant of ParseLine: the label is compared as written
ParseLine_NoLower(line) ==
    LET k == IndexOf(line, ":", 1)
        role_str == Strip(SubSeq(line, 1, k - 1))
        text == SubSeq(line, k + 1, Len(line))
    IN  IF k = 0 THEN <<>>
        ELSE IF role_str \in {<<"kehu">>, <<"customer">>}
        THEN <<[speaker |-> "customer", text |-> Strip(text), pause_after |-> 1]>>
        ELSE IF role_str \in {<<"kefu">>, <<"agent">>}
        THEN <<[speaker |-> "agent", text |-> Strip(text), pause_after |-> 1]>>
        ELSE <<>>

\* the loop body of TestScript.parse_content for one physical line:
\* the DialogueLine it appends, as a sequence of length 0 or 1
ParseLine(line) ==
    LET k == IndexOf(line, ":", 1)
        role_str == Lower(Strip(SubSeq(line, 1, k - 1)))
        text == SubSeq(line, k + 1, Len(line))
    IN  IF k = 0 THEN <<>>
        ELSE IF role_str \in {<<"kehu">>, <<"customer">>}
        THEN <<[speaker |-> "customer", text |-> Strip(text), pause_after |-> 1]>>
        ELSE IF role_str \in {<<"kefu">>, <<"agent">>}
        THEN <<[speaker |-> "agent", text |-> Strip(text), pause_after |-> 1]>>
        ELSE <<>>

RECURSIVE ParseLines(_)
ParseLines(ls) ==
    IF ls = <<>> THEN <<>> ELSE ParseLine(Head(ls)) \o ParseLines(Tail(ls))

\* TestScript.parse_content, computed
ParseContent(content) == ParseLines(SplitLines(Strip(content)))

\* --------------------------------------------------------------- scripts
ScriptEmpty == <<>>
ScriptBlank == <<" ", "\n">>
ScriptNoLabel == <<"hello">>
ScriptOne == <<"kehu", ":", " ", "hello">>
ScriptTwo == <<"CUSTOMER", " ", ":", "hello", "\n", "noise", "\n", "kefu", ":", "hi", ".">>

\* the scripts above
Scripts == {ScriptEmpty, ScriptBlank, ScriptNoLabel, ScriptOne, ScriptTwo}

\* TestScript.parse_content of each of them, computed once
ParseTable == [content \in Scripts |-> ParseContent(content)]

\* TestScript.parse_content
parse_content(content) ==
    IF content \in Scripts THEN ParseTable[content] ELSE ParseContent(content)

\* re.sub(r"\s+", " ", s): every run of whitespace becomes one blank
RECURSIVE Collapse(_)
Collapse(s) ==
    IF s = <<>> THEN <<>>
    ELSE IF Head(s) \in Whitespace THEN <<" ">> \o Collapse(LStrip(Tail(s)))
    ELSE <<Head(s)>> \o Collapse(Tail(s))

\* the words and the colons of the pattern ^(label)\s*[:]\s* of _normalize_text
LabelWords == {"kehu", "kefu", "customer", "agent"}
Colons == {":"}

\* one match of the pattern at the start of s (IGNORECASE), replaced by ""
MatchLabel(s) ==
    IF s # <<>> /\ LowerTok(Head(s)) \in LabelWords
                /\ LStrip(Tail(s)) # <<>> /\ Head(LStrip(Tail(s))) \in Colons
    THEN LStrip(Tail(LStrip(Tail(s))))
    ELSE s

\* the rest of re.sub with MULTILINE: the pattern is tried again after each
\* line break left in the text
RECURSIVE ScanLines(_)
ScanLines(s) ==
    IF s = <<>> THEN <<>>
    ELSE IF Head(s) = "\n" THEN <<"\n">> \o ScanLines(MatchLabel(Tail(s)))
    ELSE <<Head(s)>> \o ScanLines(Tail(s))

\* the characters [^\w\s] matches among those of the model
Punctuation == {":", "."}

IsWordOrSpace(t) == t \notin Punctuation

\* LLMService._normalize_text, computed
NormalizeText(text) ==
    IF text = <<>> THEN <<>>
    ELSE Strip(SelectSeq(ScanLines(MatchLabel(Collapse(Strip(text)))), IsWordOrSpace))


\* ---------------------------------------------------------------- values
\* A JSON / Python value that may sit under "accuracy_score":
\*   t = "num"     a number: v, or NaN when nan
\*   t = "numstr"  a string float() accepts: it parses to v, or to NaN when nan
\*   t = "str"     a string float() rejects (ValueError)
\*   t = "null"    None, a list or an object (TypeError)
Num(n) == [t |-> "num", nan |-> FALSE, v |-> n]
NaN == [t |-> "num", nan |-> TRUE, v |-> 0]
NumStr(n) == [t |-> "numstr", nan |-> FALSE, v |-> n]
BadStr == [t |-> "str", nan |-> FALSE, v |-> 0]
Null == [t |-> "null", nan |-> FALSE, v |-> 0]

\* float(x): the value, or the exception raised
PyFloat(x) ==
    CASE x.t \in {"num", "numstr"} -> [exc |-> <<>>, val |-> [t |-> "num", nan |-> x.nan, v |-> x.v]]
      [] x.t = "str" -> [exc |-> <<"ValueError">>, val |-> Num(0)]
      [] OTHER -> [exc |-> <<"TypeError">>, val |-> Num(0)]

\* a < b on floats: every comparison with NaN is false
PyLess(a, b) == ~a.nan /\ ~b.nan /\ a.v < b.v

\* min(a, b) and max(a, b) as Python computes them: the first argument is kept
\* unless the second compares strictly below (above) it
PyMin(a, b) == IF PyLess(b, a) THEN b ELSE a
PyMax(a, b) == IF PyLess(a, b) THEN b ELSE a

\* ------------------------------------------------------------ data model
\* models/test_models.py TestStatus
PENDING == "pending"
RUNNING == "running"
COMPLETED == "completed"
FAILED == "failed"
TestStatus == {PENDING, RUNNING, COMPLETED, FAILED}

\* models/test_models.py AudioFile, as generate_dialogue_audio builds it
TtsAudio == [file_path |-> [dir |-> "storage/audio", name |-> "dialogue_yating.mp3"]]

\* the AudioFile the call simulation returns: a new file
SimAudio == [file_path |-> [dir |-> "storage/audio", name |-> "cs_response.mp3"]]

\* faulty variant of TestResult: the object does not carry the id it is stored under
TestResult_OtherId(id, ts, script) ==
    [ test_id |-> id + 1,
      timestamp |-> ts,
      status |-> PENDING,
      original_script |-> script,
      tts_audio |-> <<>>,
      mock_response_audio |-> <<>>,
      transcribed_text |-> <<>>,
      llm_analysis |-> <<>>,
      accuracy_score |-> Num(0),
      error_message |-> <<>> ]

\* faulty variant of TestResult: the job is created already RUNNING
TestResult_Running(id, ts, script) ==
    [ test_id |-> id,
      timestamp |-> ts,
      status |-> RUNNING,
      original_script |-> script,
      tts_audio |-> <<>>,
      mock_response_audio |-> <<>>,
      transcribed_text |-> <<>>,
      llm_analysis |-> <<>>,
      accuracy_score |-> Num(0),
      error_message |-> <<>> ]

\* models/test_models.py TestResult, as start_test constructs it
TestResult(id, ts, script) ==
    [ test_id |-> id,
      timestamp |-> ts,
      status |-> PENDING,
      original_script |-> script,
      tts_audio |-> <<>>,
      mock_response_audio |-> <<>>,
      transcribed_text |-> <<>>,
      llm_analysis |-> <<>>,
      accuracy_score |-> Num(0),
      error_message |-> <<>> ]

\* AudioFile.get_web_path: the public prefix and the name of the file
get_web_path(audio) == [dir |-> "/storage/audio", name |-> audio.file_path.name]

\* the dict to_dict builds for an Optional[AudioFile] (its duration, which
\* the AudioFile of the model does not carry, left out)
AudioDict(audio) ==
    IF audio = <<>> THEN <<>>
    ELSE <<[file_path |-> audio[1].file_path, web_path |-> get_web_path(audio[1])]>>

\* TestResult.to_dict
to_dict(result) ==
    [ test_id |-> result.test_id,
      timestamp |-> [isoformat |-> result.timestamp],
      status |-> result.status,
      original_script |-> result.original_script,
      tts_audio |-> AudioDict(result.tts_audio),
      mock_response_audio |-> AudioDict(result.mock_response_audio),
      transcribed_text |-> result.transcribed_text,
      llm_analysis |-> result.llm_analysis,
      accuracy_score |-> result.accuracy_score,
      error_message |-> result.error_message ]

\* ------------------------------------------------- collaborator outcomes
\* what one Yating request can do
TtsOutcomes == {"ok", "HTTPStatusError", "no_audioContent", "RequestError"}

\* what simulate_call and store_audio can do
SimOutcomes == {"ok", "source_missing"}
StoreOutcomes == {"ok", "source_missing"}

\* the response audio file as transcribe_audio finds it on disk
FileSizes == {MinFileSize - 1, MinFileSize, MaxFileSize, MaxFileSize + 1}
FileStates == {[exists |-> FALSE, size |-> 0]} \cup {[exists |-> TRUE, size |-> n] : n \in FileSizes}

\* what the transcription backend can do
SttOutcomes ==
    { [kind |-> "text", text |-> <<"kefu", ":", "hi">>],
      [kind |-> "text", text |-> <<>>],
      [kind |-> "text", text |-> <<" ">>],
      [kind |-> "APIError", text |-> <<"STT API Error">>],
      [kind |-> "Exception", text |-> <<"connection reset">>] }

\* the values the scoring backend may put under "accuracy_score"
RawScores == {Num(-5), Num(0), Num(95), Num(100), Num(150), NaN, NumStr(80), BadStr, Null}
NoRaw == [t |-> "none", nan |-> FALSE, v |-> 0]

\* what the scoring backend can do: raise, or return a message content
LlmOutcomes ==
    { [kind |-> "APIError", score |-> NoRaw],
      [kind |-> "Exception", score |-> NoRaw],
      [kind |-> "not_json", score |-> NoRaw],
      [kind |-> "non_object", score |-> NoRaw],
      [kind |-> "object_no_score", score |-> NoRaw] }
    \cup {[kind |-> "object", score |-> x] : x \in RawScores}

\* the texts the model hands to _normalize_text: the scripts and the transcripts
Texts == Scripts \cup {Strip(out.text) : out \in SttOutcomes}

\* LLMService._normalize_text of each of them, computed once
NormalizeTable == [text \in Texts |-> NormalizeText(text)]

\* LLMService._normalize_text
normalize_text(text) ==
    IF text \in Texts THEN NormalizeTable[text] ELSE NormalizeText(text)

\* ------------------------------------------------------------- execution
\* The frame of one run_full_test coroutine while it executes a block:
\*   result       the TestResult it mutates
\*   exc          the exception propagating (<<>> when none, else <<message>>;
\*                a message is the sequence of the parts of str(e))
\*   wait         the backend call it is suspended on ("none" while running)
\*   i            the dialogue line generate_dialogue_audio is at
\*   retry_count  the retry_count of _call_gpt_api
\*   calls        the collaborator calls made so far: the argument, and what
\*                came back (outcome, with the text or the score it carried)
\*   statuses     every value assigned to result.status, in order
\*   errors       every exception raised in the run, in order
Frame(r, t, c) ==
    [result |-> r, exc |-> <<>>, wait |-> "none", i |-> t.i,
     retry_count |-> t.retry_count, calls |-> c,
     statuses |-> t.statuses, errors |-> t.errors]

\* result.status = s
SetStatus(f, s) == [f EXCEPT !.result.status = s, !.statuses = Append(@, s)]

Running(f) == f.exc = <<>> /\ f.wait = "none"

\* raise an exception with message msg
Raise(f, msg) == [f EXCEPT !.exc = <<msg>>, !.errors = Append(@, msg)]

\* a collaborator is called with arg; its outcome is not known yet
Invoke(f, name, arg) ==
    [f EXCEPT !.calls = Append(@, [call |-> name, arg |-> arg, outcome |-> "pending",
                                   text |-> <<>>, raw |-> NoRaw])]

\* the call in flight returns or raises
Return(f, out, text, raw) ==
    [f EXCEPT !.calls[Len(f.calls)].outcome = out,
              !.calls[Len(f.calls)].text = text,
              !.calls[Len(f.calls)].raw = raw]

\* await of a backend call: the coroutine suspends
Await(f, where) == [f EXCEPT !.wait = where]

\* faulty variant of run_full_test_enter: status = RUNNING is forgotten
run_full_test_enter_NoRunning(f) ==
    IF f.result.original_script = <<>>
    THEN Raise(f, <<"original script missing">>)
    ELSE f

\* run_full_test up to the first step: status = RUNNING and the script check
run_full_test_enter(f) ==
    LET g == SetStatus(f, RUNNING) IN
    IF g.result.original_script = <<>>
    THEN Raise(g, <<"original script missing">>)
    ELSE g

\* the message of the exception _synthesize_speech raises
SynthesisError(out) ==
    CASE out = "HTTPStatusError" -> <<"Yating TTS API error", "error_detail">>
      [] out = "no_audioContent" -> <<"Yating TTS response has no audio content">>
      [] OTHER -> <<"RequestError">>

\* _step1_script_to_speech / generate_dialogue_audio up to the first request
step1_begin(f) ==
    IF ~Running(f) THEN f
    ELSE LET dialogue_lines == parse_content(f.result.original_script) IN
         IF dialogue_lines = <<>>
         THEN Raise(f, <<"no recognizable dialogue in script">>)
         ELSE Await(Invoke([f EXCEPT !.i = 1], "synthesize", <<dialogue_lines[1].text>>), "tts")

\* faulty variant of step1_resume: the audio of the lines before the one that
\* failed is kept
step1_resume_KeepPartial(f, out) ==
    LET dialogue_lines == parse_content(f.result.original_script)
        g == Return(f, out, <<>>, NoRaw)
    IN  IF out # "ok"
        THEN Raise([g EXCEPT !.result.tts_audio = IF g.i > 1 THEN <<TtsAudio>> ELSE <<>>],
                   SynthesisError(out))
        ELSE IF g.i < Len(dialogue_lines)
        THEN Await(Invoke([g EXCEPT !.i = g.i + 1], "synthesize",
                          <<dialogue_lines[g.i + 1].text>>), "tts")
        ELSE [g EXCEPT !.result.tts_audio = <<TtsAudio>>]

\* faulty variant of step1_resume: a failed request is made once more
step1_resume_Retry(f, out) ==
    LET dialogue_lines == parse_content(f.result.original_script)
        g == Return(f, out, <<>>, NoRaw)
    IN  IF out # "ok" /\ g.retry_count < 1
        THEN Await(Invoke([g EXCEPT !.retry_count = g.retry_count + 1], "synthesize",
                          <<dialogue_lines[g.i].text>>), "tts")
        ELSE IF out # "ok" THEN Raise(g, SynthesisError(out))
        ELSE IF g.i < Len(dialogue_lines)
        THEN Await(Invoke([g EXCEPT !.i = g.i + 1], "synthesize",
                          <<dialogue_lines[g.i + 1].text>>), "tts")
        ELSE [g EXCEPT !.result.tts_audio = <<TtsAudio>>]

\* generate_dialogue_audio from the return of the request for line i
step1_resume(f, out) ==
    LET dialogue_lines == parse_content(f.result.original_script)
        g == Return(f, out, <<>>, NoRaw)
    IN  IF out # "ok" THEN Raise(g, SynthesisError(out))
        ELSE IF g.i < Len(dialogue_lines)
        THEN Await(Invoke([g EXCEPT !.i = g.i + 1], "synthesize",
                          <<dialogue_lines[g.i + 1].text>>), "tts")
        ELSE [g EXCEPT !.result.tts_audio = <<TtsAudio>>]

\* _step2_simulate_call
step2_simulate_call(f, out) ==
    IF ~Running(f) THEN f
    ELSE IF f.result.tts_audio = <<>>
    THEN Raise(f, <<"TTS audio missing, cannot simulate call">>)
    ELSE LET g == Return(Invoke(f, "simulate", <<>>), out, <<>>, NoRaw) IN
         IF out = "ok"
         THEN [g EXCEPT !.result.mock_response_audio = <<SimAudio>>]
         ELSE Raise(g, <<"FileNotFoundError">>)

\* faulty variant of step3_store_audio: the step is skipped
step3_store_audio_Skip(f, out) == f

\* _step3_store_audio: the returned file_id is logged and dropped
step3_store_audio(f, out) ==
    IF ~Running(f) THEN f
    ELSE IF f.result.mock_response_audio = <<>>
    THEN Raise(f, <<"response audio missing, cannot store">>)
    ELSE LET g == Return(Invoke(f, "store", <<>>), out, <<>>, NoRaw) IN
         IF out = "ok" THEN g ELSE Raise(g, <<"FileNotFoundError">>)

\* faulty variant of step4_begin: the two bounds are rejected as well
step4_begin_Inclusive(f, file) ==
    IF ~Running(f) THEN f
    ELSE IF f.result.mock_response_audio = <<>>
    THEN Raise(f, <<"response audio missing, cannot transcribe">>)
    ELSE IF ~file.exists THEN Raise(f, <<"audio file does not exist">>)
    ELSE IF file.size >= MaxFileSize THEN Raise(f, <<"file too large">>)
    ELSE IF file.size <= MinFileSize THEN Raise(f, <<"file too small">>)
    ELSE Await(Invoke(f, "transcribe", <<>>), "stt")

\* faulty variant of step4_begin: the step runs though an exception propagates
step4_begin_Always(f, file) ==
    IF f.result.mock_response_audio = <<>>
    THEN Raise(f, <<"response audio missing, cannot transcribe">>)
    ELSE IF ~file.exists THEN Raise(f, <<"audio file does not exist">>)
    ELSE IF file.size > MaxFileSize THEN Raise(f, <<"file too large">>)
    ELSE IF file.size < MinFileSize THEN Raise(f, <<"file too small">>)
    ELSE Await(Invoke(f, "transcribe", <<>>), "stt")

\* _step4_speech_to_text / transcribe_audio up to the backend request
step4_begin(f, file) ==
    IF ~Running(f) THEN f
    ELSE IF f.result.mock_response_audio = <<>>
    THEN Raise(f, <<"response audio missing, cannot transcribe">>)
    ELSE IF ~file.exists THEN Raise(f, <<"audio file does not exist">>)
    ELSE IF file.size > MaxFileSize THEN Raise(f, <<"file too large">>)
    ELSE IF file.size < MinFileSize THEN Raise(f, <<"file too small">>)
    ELSE Await(Invoke(f, "transcribe", <<>>), "stt")

\* faulty variant of step4_resume: the f prefix of the message is forgotten,
\* so the backend's text is not interpolated
step4_resume_DropText(f, out) ==
    LET g == Return(f, out.kind, out.text, NoRaw)
        transcript == Strip(out.text)
    IN  IF out.kind # "text" THEN Raise(g, <<"transcription failed", "{e}">>)
        ELSE IF transcript = <<>> THEN Raise(g, <<"cannot recognize speech content">>)
        ELSE [g EXCEPT !.result.transcribed_text = transcript]

\* transcribe_audio from the return of the backend request, then
\* _step4_speech_to_text's assignment (the confidence is dropped)
step4_resume(f, out) ==
    LET g == Return(f, out.kind, out.text, NoRaw)
        transcript == Strip(out.text)
    IN  IF out.kind # "text" THEN Raise(g, <<"transcription failed">> \o out.text)
        ELSE IF transcript = <<>> THEN Raise(g, <<"cannot recognize speech content">>)
        ELSE [g EXCEPT !.result.transcribed_text = transcript]

\* analyze_conversation's handler: except Exception -> RuntimeError(f"... {e}")
analyze_conversation_except(f) ==
    IF f.exc = <<>> THEN f ELSE Raise(f, <<"LLM analysis error">> \o f.exc[1])

\* _step5_analyze_conversation / analyze_conversation up to the backend request
step5_begin(f) ==
    IF ~Running(f) THEN f
    ELSE IF f.result.transcribed_text = <<>>
    THEN [f EXCEPT !.result.llm_analysis = <<>>]
    ELSE analyze_conversation_except(
           IF Strip(f.result.original_script) = <<>>
           THEN Raise(f, <<"original script must not be empty">>)
           ELSE IF Strip(f.result.transcribed_text) = <<>>
           THEN Raise(f, <<"transcribed text must not be empty">>)
           ELSE Await(Invoke([f EXCEPT !.retry_count = 0], "score",
                             <<normalize_text(f.result.original_script),
                               normalize_text(f.result.transcribed_text)>>), "llm"))

\* faulty variant of ClampScore: no clamp
ClampScore_None(x) == x

\* the clamp of _parse_analysis_response
ClampScore(x) == PyMax(Num(ScoreLow), PyMin(Num(ScoreHigh), x))

\* the result of _parse_analysis_response's except clause
DegradedAnalysis == [accuracy_score |-> Num(0), degraded |-> TRUE]

\* _parse_analysis_response: the analysis, or the exception that escapes it
parse_analysis_response(resp) ==
    CASE resp.kind = "not_json" -> [exc |-> <<>>, analysis |-> DegradedAnalysis]
      [] resp.kind = "non_object" ->
            [exc |-> <<(<<"AttributeError">>)>>, analysis |-> DegradedAnalysis]
      [] resp.kind = "object_no_score" ->
            [exc |-> <<>>, analysis |-> [accuracy_score |-> ClampScore(Num(0)), degraded |-> FALSE]]
      [] OTHER ->
            LET x == PyFloat(resp.score) IN
            IF x.exc # <<>>
            THEN [exc |-> <<>>, analysis |-> DegradedAnalysis]
            ELSE [exc |-> <<>>, analysis |-> [accuracy_score |-> ClampScore(x.val), degraded |-> FALSE]]

\* faulty variant of step5_resume: one retry more
step5_resume_OneMore(f, out) ==
    LET g == Return(f, out.kind, <<>>, out.score) IN
    IF out.kind = "APIError"
    THEN IF g.retry_count < MaxRetry + 1
         THEN Await(Invoke([g EXCEPT !.retry_count = g.retry_count + 1], "score",
                           g.calls[Len(g.calls)].arg), "llm")
         ELSE analyze_conversation_except(Raise(g, <<"OpenAI API error", "{e}">>))
    ELSE IF out.kind = "Exception"
    THEN analyze_conversation_except(Raise(g, <<"Exception">>))
    ELSE LET p == parse_analysis_response(out) IN
         IF p.exc # <<>>
         THEN analyze_conversation_except(Raise(g, p.exc[1]))
         ELSE [g EXCEPT !.result.llm_analysis = <<p.analysis>>]

\* _call_gpt_api from the return of the backend request, then the rest of
\* analyze_conversation and _step5_analyze_conversation's assignment
step5_resume(f, out) ==
    LET g == Return(f, out.kind, <<>>, out.score) IN
    IF out.kind = "APIError"
    THEN IF g.retry_count < MaxRetry
         THEN Await(Invoke([g EXCEPT !.retry_count = g.retry_count + 1], "score",
                           g.calls[Len(g.calls)].arg), "llm")
         ELSE analyze_conversation_except(Raise(g, <<"OpenAI API error", "{e}">>))
    ELSE IF out.kind = "Exception"
    THEN analyze_conversation_except(Raise(g, <<"Exception">>))
    ELSE LET p == parse_analysis_response(out) IN
         IF p.exc # <<>>
         THEN analyze_conversation_except(Raise(g, p.exc[1]))
         ELSE [g EXCEPT !.result.llm_analysis = <<p.analysis>>]

\* faulty variant of step6_generate_report: the score is never stored
step6_generate_report_Skip(f) == f

\* _step6_generate_report
step6_generate_report(f) ==
    IF ~Running(f) THEN f
    ELSE IF f.result.llm_analysis = <<>>
    THEN [f EXCEPT !.result.accuracy_score = Num(0)]
    ELSE LET x == PyFloat(f.result.llm_analysis[1].accuracy_score) IN
         IF x.exc # <<>> THEN Raise(f, x.exc)
         ELSE [f EXCEPT !.result.accuracy_score = x.val]

\* faulty variant of run_full_test_exit: no except clause
run_full_test_exit_NoExcept(f) ==
    IF f.exc # <<>> \/ f.wait # "none" THEN f ELSE SetStatus(f, COMPLETED)

\* faulty variant of run_full_test_exit: the except clause drops the message
run_full_test_exit_NoMessage(f) ==
    IF f.exc # <<>>
    THEN [SetStatus(f, FAILED) EXCEPT !.exc = <<>>]
    ELSE IF f.wait # "none" THEN f
    ELSE SetStatus(f, COMPLETED)

\* faulty variant of run_full_test_exit: the log line after the last step raises
run_full_test_exit_LogRaises(f) ==
    IF f.exc # <<>> \/ f.wait = "none"
    THEN [SetStatus(f, FAILED) EXCEPT
            !.result.error_message = IF f.exc # <<>> THEN f.exc ELSE <<(<<"ValueError">>)>>,
            !.exc = <<>>]
    ELSE f

\* the end of run_full_test's try block, and its except clause
run_full_test_exit(f) ==
    IF f.exc # <<>>
    THEN [SetStatus(f, FAILED) EXCEPT !.result.error_message = f.exc, !.exc = <<>>]
    ELSE IF f.wait # "none" THEN f
    ELSE SetStatus(f, COMPLETED)

\* run_test_async's except clause: what run_full_test let escape
run_test_async_except(f) ==
    IF f.exc # <<>>
    THEN [SetStatus(f, FAILED) EXCEPT !.result.error_message = f.exc]
    ELSE f

\* ----------------------------------------------------------------- state
VARIABLES
    test_orchestrator,  \* routes.py: whether TestOrchestrator() was constructed
    test_results,       \* routes.py: the keys of the registry dict
    objects,            \* every TestResult created; objects[id] is the one with test_id = id
    tasks,              \* tasks[id]: the background task run_test_async(objects[id])
    calls,              \* calls[id]: the collaborator calls made for objects[id]
    now,                \* datetime.now()
    last,               \* the operation that ran last, with its HTTP status code
    probe,              \* the get_system_status request: its position, status dict and response
    test_script         \* a TestScript: its content, its dialogue_lines, what parse_content returned

vars == <<test_orchestrator, test_results, objects, tasks, calls, now, last, probe, test_script>>

JobIds == 1..MaxJobs
Created == 1..Len(objects)

Op(op, id, code) == [op |-> op, test_id |-> id, code |-> code]

\* TestScript(content): the dataclass defaults; returned is the sequence of
\* the values parse_content has returned for it
TestScript(content) == [content |-> content, dialogue_lines |-> <<>>, returned |-> <<>>]

\* no get_system_status request has been made
NoProbe == [pc |-> "idle", status |-> <<>>, log |-> <<>>, response |-> <<>>]

Init ==
    /\ test_orchestrator \in BOOLEAN
    /\ test_results = {}
    /\ objects = <<>>
    /\ tasks = <<>>
    /\ calls = <<>>
    /\ now = 0
    /\ last = Op("init", 0, 0)
    /\ probe = NoProbe
    /\ test_script = TestScript(<<>>)

\* ------------------------------------------------------------- handlers
\* background_tasks.add_task(run_test_async, result): the task, not yet started
Scheduled ==
    [pc |-> "scheduled", i |-> 0, retry_count |-> 0, escaped |-> FALSE,
     statuses |-> <<PENDING>>, errors |-> <<>>]

\* the HTTPException start_test raises inside its try block (0: none)
start_test_raises(script) ==
    IF ~test_orchestrator THEN 503
    ELSE IF Strip(script) = <<>> THEN 400
    ELSE 0

\* start_test's except clause: every exception of the try block, its own
\* HTTPExceptions included, is answered with status 500
start_test_except(raised) == 500

\* POST /api/test/start
start_test(script) ==
    LET raised == start_test_raises(script)
        id == Len(objects) + 1
    IN  IF raised # 0
        THEN /\ last' = Op("start_test", 0, start_test_except(raised))
             /\ UNCHANGED <<test_script, probe, test_orchestrator, test_results, objects, tasks, calls, now>>
        ELSE /\ Len(objects) < MaxJobs
             /\ objects' = Append(objects, TestResult(id, now, script))
             /\ test_results' = test_results \cup {id}
             /\ tasks' = Append(tasks, Scheduled)
             /\ calls' = Append(calls, <<>>)
             /\ last' = Op("start_test", id, 200)
             /\ UNCHANGED <<test_script, probe, test_orchestrator, now>>

\* GET /api/test/{test_id}/result
get_test_result(id) ==
    /\ last' = Op("get_test_result", id, IF id \in test_results THEN 200 ELSE 404)
    /\ UNCHANGED <<test_script, probe, test_orchestrator, test_results, objects, tasks, calls, now>>

\* the attributes of a TestResult: the fields of the dataclass and its method
TestResultAttrs ==
    {"test_id", "timestamp", "status", "original_script", "tts_audio",
     "mock_response_audio", "transcribed_text", "llm_analysis", "accuracy_score",
     "error_message", "to_dict"}

\* reading attribute attr of a TestResult raises AttributeError
AttributeError(attr) == attr \notin TestResultAttrs

\* faulty variant of Lookup: the registry is not consulted
Lookup_NoCheck(id, attr) ==
    IF AttributeError(attr) THEN 500
    ELSE 200

\* the status code of a handler that looks test_id up and then reads attr first
Lookup(id, attr) ==
    IF id \notin test_results THEN 404
    ELSE IF AttributeError(attr) THEN 500
    ELSE 200

\* GET /api/test/{test_id}/status: its status code
get_test_status_code(id) == Lookup(id, "get_status_response")

\* GET /api/test/{test_id}/status
get_test_status(id) ==
    /\ last' = Op("get_test_status", id, get_test_status_code(id))
    /\ UNCHANGED <<test_script, probe, test_orchestrator, test_results, objects, tasks, calls, now>>

\* GET /api/test/{test_id}/report: its status code; each of its three branches
\* reads current_step or completed_steps
get_test_report_code(id) ==
    IF id \in test_results /\ objects[id].status = COMPLETED
    THEN Lookup(id, "completed_steps")
    ELSE Lookup(id, "current_step")

\* get_test_report's grade_color for a score (a comparison with NaN is false)
Grade(accuracy) ==
    IF ~accuracy.nan /\ accuracy.v >= 90 THEN "excellent"
    ELSE IF ~accuracy.nan /\ accuracy.v >= 80 THEN "good"
    ELSE IF ~accuracy.nan /\ accuracy.v >= 70 THEN "fair"
    ELSE "poor"

\* GET /api/test/{test_id}/report: the grade_color of the response, as a
\* sequence of length 0 or 1; only the report of a COMPLETED job has one, and
\* only a request answered 200 has a response
get_test_report_grade(id) ==
    IF get_test_report_code(id) = 200 /\ objects[id].status = COMPLETED
    THEN <<Grade(objects[id].accuracy_score)>>
    ELSE <<>>

\* GET /api/test/{test_id}/report
get_test_report(id) ==
    /\ last' = Op("get_test_report", id, get_test_report_code(id))
    /\ UNCHANGED <<test_script, probe, test_orchestrator, test_results, objects, tasks, calls, now>>

\* len(sorted_tests[:limit])
SliceLen(n, limit) ==
    IF limit >= 0 THEN (IF limit < n THEN limit ELSE n)
    ELSE (IF n + limit > 0 THEN n + limit ELSE 0)

\* GET /api/tests/list: its status code; the loop body reads completed_steps
\* of the first TestResult of the slice
list_tests_code(limit) ==
    IF SliceLen(Cardinality(test_results), limit) > 0 /\ AttributeError("completed_steps")
    THEN 500 ELSE 200

\* GET /api/tests/list: the test_id of each entry of the list it returns
list_tests_ids(limit) ==
    IF list_tests_code(limit) = 200 /\ SliceLen(Cardinality(test_results), limit) > 0
    THEN test_results ELSE {}

\* GET /api/tests/list
list_tests(limit) ==
    /\ last' = Op("list_tests", 0, list_tests_code(limit))
    /\ UNCHANGED <<test_script, probe, test_orchestrator, test_results, objects, tasks, calls, now>>

\* faulty variant of delete_test: a RUNNING job is deleted too
delete_test_Any(id) ==
    /\ IF id \notin test_results
       THEN /\ last' = Op("delete_test", id, 404)
            /\ UNCHANGED test_results
       ELSE /\ test_results' = test_results \ {id}
            /\ last' = Op("delete_test", id, 200)
    /\ UNCHANGED <<test_script, probe, test_orchestrator, objects, tasks, calls, now>>

\* DELETE /api/test/{test_id}
delete_test(id) ==
    /\ IF id \notin test_results
       THEN /\ last' = Op("delete_test", id, 404)
            /\ UNCHANGED test_results
       ELSE IF objects[id].status = RUNNING
       THEN /\ last' = Op("delete_test", id, 400)
            /\ UNCHANGED test_results
       ELSE /\ test_results' = test_results \ {id}
            /\ last' = Op("delete_test", id, 200)
    /\ UNCHANGED <<test_script, probe, test_orchestrator, objects, tasks, calls, now>>

\* the keys cleanup_old_tests collects in tests_to_delete
tests_to_delete(days) ==
    {id \in test_results :
        objects[id].status # RUNNING /\ objects[id].timestamp < now - days}

\* POST /api/tests/cleanup
cleanup_old_tests(days) ==
    /\ test_results' = test_results \ tests_to_delete(days)
    /\ last' = Op("cleanup_old_tests", 0, 200)
    /\ UNCHANGED <<test_script, probe, test_orchestrator, objects, tasks, calls, now>>

\* ------------------------------------------------------ background task
\* faulty variant of Commit: the score is kept in one place for all the jobs
Commit_Shared(id, f, op) ==
    \E g \in {run_test_async_except(f)} :
    /\ objects' = [k \in DOMAIN objects |->
                     IF k = id THEN g.result
                     ELSE [objects[k] EXCEPT !.accuracy_score = g.result.accuracy_score]]
    /\ tasks' = [tasks EXCEPT ![id] =
                    [pc |-> IF g.wait # "none" /\ f.exc = <<>> THEN g.wait ELSE "done",
                     i |-> g.i, retry_count |-> g.retry_count,
                     escaped |-> f.exc # <<>>,
                     statuses |-> g.statuses, errors |-> g.errors]]
    /\ calls' = [calls EXCEPT ![id] = g.calls]
    /\ last' = Op(op, 0, 0)
    /\ UNCHANGED <<test_script, probe, test_orchestrator, test_results, now>>

\* the task of job id stops at frame f: suspended on a backend call, or over
Commit(id, f, op) ==
    \E g \in {run_test_async_except(f)} :
    /\ objects' = [objects EXCEPT ![id] = g.result]
    /\ tasks' = [tasks EXCEPT ![id] =
                    [pc |-> IF g.wait # "none" /\ f.exc = <<>> THEN g.wait ELSE "done",
                     i |-> g.i, retry_count |-> g.retry_count,
                     escaped |-> f.exc # <<>>,
                     statuses |-> g.statuses, errors |-> g.errors]]
    /\ calls' = [calls EXCEPT ![id] = g.calls]
    /\ last' = Op(op, 0, 0)
    /\ UNCHANGED <<test_script, probe, test_orchestrator, test_results, now>>

\* faulty variant of Dispatch: the run of a job no longer registered never starts
Dispatch_Registered(id) ==
    /\ id \in test_results
    /\ tasks[id].pc = "scheduled"
    /\ \E f0 \in {Frame(objects[id], tasks[id], calls[id])} :
       \E f1 \in {run_full_test_enter(f0)} :
       \E f2 \in {step1_begin(f1)} :
       \E f3 \in {run_full_test_exit(f2)} :
          Commit(id, f3, "run_test_async")

\* faulty variant of Dispatch: a run starts only while no other run is suspended
Dispatch_Serial(id) ==
    /\ id \in Created
    /\ tasks[id].pc = "scheduled"
    /\ \A other \in Created : tasks[other].pc \in {"scheduled", "done"}
    /\ \E f0 \in {Frame(objects[id], tasks[id], calls[id])} :
       \E f1 \in {run_full_test_enter(f0)} :
       \E f2 \in {step1_begin(f1)} :
       \E f3 \in {run_full_test_exit(f2)} :
          Commit(id, f3, "run_test_async")

\* faulty variant of Dispatch: a finished task is started again
Dispatch_Again(id) ==
    /\ id \in Created
    /\ tasks[id].pc \in {"scheduled", "done"}
    /\ Len(tasks[id].statuses) < 4
    /\ \E f0 \in {Frame(objects[id], tasks[id], calls[id])} :
       \E f1 \in {run_full_test_enter(f0)} :
       \E f2 \in {step1_begin(f1)} :
       \E f3 \in {run_full_test_exit(f2)} :
          Commit(id, f3, "run_test_async")

\* run_test_async starts: run_full_test up to the first synthesis request.
\* Each frame is the value of one call, handed to the next.
Dispatch(id) ==
    /\ id \in Created
    /\ tasks[id].pc = "scheduled"
    /\ \E f0 \in {Frame(objects[id], tasks[id], calls[id])} :
       \E f1 \in {run_full_test_enter(f0)} :
       \E f2 \in {step1_begin(f1)} :
       \E f3 \in {run_full_test_exit(f2)} :
          Commit(id, f3, "run_test_async")

\* a synthesis request returns: the next request, or on to the transcription request
TtsReturn(id, out, sim, store, file) ==
    /\ id \in Created
    /\ tasks[id].pc = "tts"
    /\ \E f0 \in {Frame(objects[id], tasks[id], calls[id])} :
       \E f1 \in {step1_resume(f0, out)} :
       \E f2 \in {step2_simulate_call(f1, sim)} :
       \E f3 \in {step3_store_audio(f2, store)} :
       \E f4 \in {step4_begin(f3, file)} :
       \E f5 \in {run_full_test_exit(f4)} :
          Commit(id, f5, "run_test_async")

\* the transcription request returns: on to the scoring request
SttReturn(id, out) ==
    /\ id \in Created
    /\ tasks[id].pc = "stt"
    /\ \E f0 \in {Frame(objects[id], tasks[id], calls[id])} :
       \E f1 \in {step4_resume(f0, out)} :
       \E f2 \in {step5_begin(f1)} :
       \E f3 \in {step6_generate_report(f2)} :
       \E f4 \in {run_full_test_exit(f3)} :
          Commit(id, f4, "run_test_async")

\* a scoring request returns: a retry, or on to the end of the run
LlmReturn(id, out) ==
    /\ id \in Created
    /\ tasks[id].pc = "llm"
    /\ \E f0 \in {Frame(objects[id], tasks[id], calls[id])} :
       \E f1 \in {step5_resume(f0, out)} :
       \E f2 \in {step6_generate_report(f1)} :
       \E f3 \in {run_full_test_exit(f2)} :
          Commit(id, f3, "run_test_async")

\* time passes
Tick ==
    /\ now < MaxTime
    /\ now' = now + 1
    /\ last' = Op("tick", 0, 0)
    /\ UNCHANGED <<test_script, probe, test_orchestrator, test_results, objects, tasks, calls>>

\* ---------------------------------------------------------------- system
\* The whole service: several jobs in flight, every handler, and a sample of
\* the collaborators' outcomes under which a job can be suspended at each
\* backend, complete, and fail both before and after its scoring request.
\* Every outcome of every collaborator is in SpecRun below.
SubmittedScripts == {ScriptEmpty, ScriptBlank, ScriptOne}
TtsSample == {"ok", "HTTPStatusError"}
SimSample == {"ok"}
StoreSample == {"ok"}
FileSample == {[exists |-> TRUE, size |-> MinFileSize]}
SttSample == {o \in SttOutcomes : o.kind = "text" /\ Len(o.text) > 1}
LlmSample == {o \in LlmOutcomes : o.kind = "Exception" \/ o.score = Num(95)}

Next ==
    \/ \E script \in SubmittedScripts : start_test(script)
    \/ \E id \in JobIds : get_test_result(id)
    \/ \E id \in JobIds : delete_test(id)
    \/ \E days \in 0..MaxTime : cleanup_old_tests(days)
    \/ \E id \in JobIds : Dispatch(id)
    \/ \E id \in JobIds, out \in TtsSample, sim \in SimSample,
          store \in StoreSample, file \in FileSample :
          TtsReturn(id, out, sim, store, file)
    \/ \E id \in JobIds, out \in SttSample : SttReturn(id, out)
    \/ \E id \in JobIds, out \in LlmSample : LlmReturn(id, out)
    \/ Tick

Spec == Init /\ [][Next]_vars

\* ------------------------------------------------------------------- run
\* One job from the moment start_test has registered it, under every outcome
\* of every collaborator, with every handler that takes a job id.
RunScripts == {ScriptNoLabel, ScriptOne, ScriptTwo}
\* the ids the handlers are called with: the job's, and one never submitted
QueryIds == {1, 2}
\* the limit query parameter of list_tests: none of the records, the default
Limits == {0, 10}

InitRun ==
    /\ test_orchestrator = TRUE
    /\ test_results = {1}
    /\ \E script \in RunScripts : objects = <<TestResult(1, 0, script)>>
    /\ tasks = <<Scheduled>>
    /\ calls = << <<>> >>
    /\ now = 0
    /\ last = Op("start_test", 1, 200)
    /\ probe = NoProbe
    /\ test_script = TestScript(<<>>)

NextRun ==
    \/ \E id \in QueryIds : get_test_status(id)
    \/ \E id \in QueryIds : get_test_result(id)
    \/ \E id \in QueryIds : get_test_report(id)
    \/ \E limit \in Limits : list_tests(limit)
    \/ \E id \in QueryIds : delete_test(id)
    \/ Dispatch(1)
    \/ \E out \in TtsOutcomes, sim \in SimOutcomes, store \in StoreOutcomes,
          file \in FileStates :
          TtsReturn(1, out, sim, store, file)
    \/ \E out \in SttOutcomes : SttReturn(1, out)
    \/ \E out \in LlmOutcomes : LlmReturn(1, out)

SpecRun == InitRun /\ [][NextRun]_vars

\* The same job under the assumptions of a live service: the event loop runs
\* the task add_task has scheduled, and every awaited backend request
\* returns or raises.
TtsReturns ==
    \E out \in TtsOutcomes, sim \in SimOutcomes, store \in StoreOutcomes,
       file \in FileStates :
       TtsReturn(1, out, sim, store, file)

SttReturns == \E out \in SttOutcomes : SttReturn(1, out)

LlmReturns == \E out \in LlmOutcomes : LlmReturn(1, out)

Fairness ==
    /\ WF_vars(Dispatch(1))
    /\ WF_vars(TtsReturns)
    /\ WF_vars(SttReturns)
    /\ WF_vars(LlmReturns)

SpecLive == InitRun /\ [][NextRun]_vars /\ Fairness

\* --------------------------------------------------------- system status
\* what the backend of each probe can answer
TtsProbeOutcomes == TtsOutcomes \cup {"ValueError"}
SttProbeOutcomes == {"listed", "not_listed", "Exception"}
LlmProbeOutcomes == {"content", "blank", "no_content", "APIError", "ValueError", "ConnectionError"}

\* a probe returned value
Returned(value) == [raised |-> FALSE, value |-> value]
\* a probe raised
Raised == [raised |-> TRUE, value |-> FALSE]

\* TTSService.test_connection: True, or RuntimeError, raised by
\* _synthesize_speech or made of the httpx and value errors
tts_test_connection(out) == IF out = "ok" THEN Returned(TRUE) ELSE Raised

\* STTService.test_connection: whether the model is listed; False on any exception
stt_test_connection(out) == Returned(out = "listed")

\* LLMService.test_connection: bool(content.strip()); False on the errors it
\* names; the AttributeError of a response without content escapes
llm_test_connection(out) ==
    CASE out = "content" -> Returned(TRUE)
      [] out = "no_content" -> Raised
      [] OTHER -> Returned(FALSE)

\* faulty variant of get_service_status_except: the probe is not guarded
get_service_status_except_None(r) == r

\* get_service_status: 'except Exception: status[...] = False' around a probe
get_service_status_except(r) == IF r.raised THEN Returned(FALSE) ELSE r

\* the entries get_service_status adds after the three probes
MockEntries == <<[name |-> "mock_cs", ok |-> TRUE], [name |-> "mock_storage", ok |-> TRUE]>>

\* the body of get_system_status's answer
SystemStatus(status, services) == <<[status |-> status, services |-> services]>>

\* get_system_status's except clause: an exception of get_service_status
SystemStatusFailed(backend, out) ==
    /\ probe' = [probe EXCEPT !.pc = "idle",
                              !.log = Append(@, [probe |-> backend, outcome |-> out]),
                              !.response = SystemStatus("error", <<>>)]
    /\ last' = Op("get_system_status", 0, 200)

\* GET /api/system/status, up to the first probe's request
get_system_status ==
    /\ probe.pc = "idle"
    /\ IF ~test_orchestrator
       THEN /\ probe' = [NoProbe EXCEPT !.response = SystemStatus("error", <<>>)]
            /\ last' = Op("get_system_status", 0, 200)
       ELSE /\ probe' = [NoProbe EXCEPT !.pc = "tts"]
            /\ last' = Op("get_system_status", 0, 0)
    /\ UNCHANGED <<test_script, test_orchestrator, test_results, objects, tasks, calls, now>>

\* the probe of backend `backend` ended as r: its entry, and on to pc `next`
ProbeDone(backend, name, out, r, next) ==
    \E e \in {get_service_status_except(r)} :
        IF e.raised THEN SystemStatusFailed(backend, out)
        ELSE /\ probe' = [probe EXCEPT
                            !.pc = next,
                            !.log = Append(@, [probe |-> backend, outcome |-> out]),
                            !.status = Append(@, [name |-> name, ok |-> e.value])]
             /\ last' = Op("get_system_status", 0, 0)

\* the synthesis probe returns: on to the transcription probe
TtsProbeReturn(out) ==
    /\ probe.pc = "tts"
    /\ ProbeDone("tts", "tts (yating)", out, tts_test_connection(out), "stt")
    /\ UNCHANGED <<test_script, test_orchestrator, test_results, objects, tasks, calls, now>>

\* the transcription probe returns: on to the scoring probe
SttProbeReturn(out) ==
    /\ probe.pc = "stt"
    /\ ProbeDone("stt", "stt (gpt-4o-transcribe)", out, stt_test_connection(out), "llm")
    /\ UNCHANGED <<test_script, test_orchestrator, test_results, objects, tasks, calls, now>>

\* the scoring probe returns: get_service_status returns and get_system_status answers
LlmProbeReturn(out) ==
    /\ probe.pc = "llm"
    /\ \E e \in {get_service_status_except(llm_test_connection(out))} :
          IF e.raised THEN SystemStatusFailed("llm", out)
          ELSE \E services \in {Append(probe.status, [name |-> "llm (gpt-4o)", ok |-> e.value])
                                    \o MockEntries} :
               /\ probe' = [probe EXCEPT
                              !.pc = "idle",
                              !.log = Append(@, [probe |-> "llm", outcome |-> out]),
                              !.status = services,
                              !.response = SystemStatus(
                                  IF \A k \in 1..Len(services) : services[k].ok
                                  THEN "healthy" ELSE "partial", services)]
               /\ last' = Op("get_system_status", 0, 200)
    /\ UNCHANGED <<test_script, test_orchestrator, test_results, objects, tasks, calls, now>>

NextStatus ==
    \/ get_system_status
    \/ \E out \in TtsProbeOutcomes : TtsProbeReturn(out)
    \/ \E out \in SttProbeOutcomes : SttProbeReturn(out)
    \/ \E out \in LlmProbeOutcomes : LlmProbeReturn(out)

SpecStatus == Init /\ [][NextStatus]_vars

\* --------------------------------------------------------------- parsing
MaxLen == 4         \* the characters of a script

\* the characters a script is made of: a label of either role, one of them in
\* capitals, the colon, a blank, the line break and a word
Alphabet == {"kehu", "Agent", ":", " ", "\n", "hello"}

Contents == UNION {[1..n -> Alphabet] : n \in 0..MaxLen}

\* TestScript(content=...), as generate_dialogue_audio receives it
new_TestScript(content) ==
    /\ last.op = "init"
    /\ test_script' = TestScript(content)
    /\ last' = Op("TestScript", 0, 0)
    /\ UNCHANGED <<probe, test_orchestrator, test_results, objects, tasks, calls, now>>

\* one call of TestScript.parse_content
TestScript_parse_content ==
    /\ last.op \in {"TestScript", "parse_content"}
    /\ Len(test_script.returned) < 2
    /\ \E lines \in {parse_content(test_script.content)} :
          test_script' = [test_script EXCEPT !.dialogue_lines = lines,
                                            !.returned = Append(@, lines)]
    /\ last' = Op("parse_content", 0, 0)
    /\ UNCHANGED <<probe, test_orchestrator, test_results, objects, tasks, calls, now>>

NextParse ==
    \/ \E content \in Contents : new_TestScript(content)
    \/ TestScript_parse_content

SpecParse == Init /\ [][NextParse]_vars

\* ------------------------------------------------------------ properties
Last(q) == q[Len(q)]

IsPrefix(p, q) == Len(p) <= Len(q) /\ SubSeq(q, 1, Len(p)) = p

\* txt occurs in msg as a contiguous run
Contains(msg, txt) ==
    \E k \in 0..(Len(msg) - Len(txt)) : SubSeq(msg, k + 1, k + Len(txt)) = txt

Done(id) == tasks[id].pc = "done"

\* the positions in calls[id] of the calls to one collaborator
CallsTo(id, name) == {k \in 1..Len(calls[id]) : calls[id][k].call = name}

\* the score of a TestResult is a number within [0, 100]
InRange(x) == x.t = "num" /\ ~x.nan /\ ScoreLow <= x.v /\ x.v <= ScoreHigh

\* C1: every value assigned to a job's status follows PENDING -> RUNNING ->
\* COMPLETED or PENDING -> RUNNING -> FAILED, whatever submit, dispatch, the
\* pipeline, queries, delete and cleanup do: RUNNING is never skipped and
\* nothing is assigned after a terminal status.
C1_StatusTransitions ==
    \A id \in Created :
        /\ tasks[id].statuses # <<>>
        /\ Last(tasks[id].statuses) = objects[id].status
        /\ \/ IsPrefix(tasks[id].statuses, <<PENDING, RUNNING, COMPLETED>>)
           \/ IsPrefix(tasks[id].statuses, <<PENDING, RUNNING, FAILED>>)

\* C1 witness: two jobs have run to the end, one to each terminal status, and
\* the completed one has been deleted since
C1_Witness ==
    \E a, b \in Created :
        /\ tasks[a].statuses = <<PENDING, RUNNING, COMPLETED>>
        /\ tasks[b].statuses = <<PENDING, RUNNING, FAILED>>
        /\ a \notin test_results
        /\ last = Op("cleanup_old_tests", 0, 200)

\* C2: run_full_test lets no exception escape: as soon as a step or its
\* collaborator has raised, the run is over with status FAILED and
\* error_message the text of the exception raised last.
C2_NeverRaises ==
    \A id \in Created :
        /\ ~tasks[id].escaped
        /\ tasks[id].errors # <<>> =>
              /\ Done(id)
              /\ objects[id].status = FAILED
              /\ objects[id].error_message = <<Last(tasks[id].errors)>>

\* C2 witness: the storage collaborator raised in step 3 and the run ended FAILED
C2_Witness ==
    \E id \in Created :
        /\ calls[id] # <<>>
        /\ Last(calls[id]).call = "store"
        /\ Last(calls[id]).outcome = "source_missing"
        /\ objects[id].status = FAILED
        /\ objects[id].error_message = <<(<<"FileNotFoundError">>)>>
        /\ ~tasks[id].escaped

\* every collaborator of job id has returned successfully: each synthesis
\* request, the simulation, the storage, a non-empty transcript, an analysis
AllSucceeded(id) ==
    /\ Done(id)
    /\ parse_content(objects[id].original_script) # <<>>
    /\ CallsTo(id, "score") # {}
    /\ Last(calls[id]).call = "score"
    /\ Last(calls[id]).outcome \in {"object", "object_no_score", "not_json"}
    /\ \A k \in 1..Len(calls[id]) :
          /\ calls[id][k].call \in {"synthesize", "simulate", "store"}
                => calls[id][k].outcome = "ok"
          /\ calls[id][k].call = "transcribe"
                => calls[id][k].outcome = "text" /\ Strip(calls[id][k].text) # <<>>

\* what analyze_conversation returned to step 5 of job id
ScorerOutput(id) ==
    parse_analysis_response(
        [kind |-> Last(calls[id]).outcome, score |-> Last(calls[id]).raw]).analysis

\* the fields of a run in which every collaborator succeeded
SuccessFields(id) ==
    /\ objects[id].status = COMPLETED
    /\ objects[id].tts_audio = <<TtsAudio>>
    /\ objects[id].mock_response_audio = <<SimAudio>>
    /\ \E k \in CallsTo(id, "transcribe") :
          objects[id].transcribed_text = Strip(calls[id][k].text)
    /\ objects[id].llm_analysis = <<ScorerOutput(id)>>
    /\ objects[id].accuracy_score = ScorerOutput(id).accuracy_score
    /\ objects[id].error_message = <<>>

\* C3: when every collaborator succeeds on a script with a recognized line and
\* a non-empty transcript, the run ends COMPLETED with each field equal to the
\* output of its collaborator, the score equal to the analysis's score, no
\* error_message, and original_script never changed.
C3_SuccessRun ==
    /\ [](\A id \in Created : AllSucceeded(id) => SuccessFields(id))
    /\ [][\A id \in Created :
            objects'[id].original_script = objects[id].original_script]_vars

\* C3 witness: a run that succeeded after one scoring retry, with score 95
C3_Witness ==
    \E id \in Created :
        /\ AllSucceeded(id)
        /\ Len(parse_content(objects[id].original_script)) = 2
        /\ Cardinality(CallsTo(id, "score")) = 2
        /\ objects[id].accuracy_score = Num(95)
        /\ objects[id].status = COMPLETED

\* the positions of the transcription requests the backend answered with an error
SttBackendErrors(id) ==
    {k \in CallsTo(id, "transcribe") : calls[id][k].outcome \in {"APIError", "Exception"}}

\* C4: when the transcription backend raises, the job ends FAILED with the
\* backend's text inside error_message, the scorer is never called, the score
\* is still 0 and the analysis still empty, and the two audio artifacts of the
\* earlier steps are kept.
C4_SttFails ==
    \A id \in Created : \A k \in SttBackendErrors(id) :
        /\ Done(id)
        /\ objects[id].status = FAILED
        /\ objects[id].error_message # <<>>
        /\ Contains(objects[id].error_message[1], calls[id][k].text)
        /\ CallsTo(id, "score") = {}
        /\ objects[id].accuracy_score = Num(0)
        /\ objects[id].llm_analysis = <<>>
        /\ objects[id].tts_audio = <<TtsAudio>>
        /\ objects[id].mock_response_audio = <<SimAudio>>

\* C4 witness: the backend raised an API error and the job has ended FAILED
C4_Witness ==
    \E id \in Created : \E k \in SttBackendErrors(id) :
        /\ calls[id][k].outcome = "APIError"
        /\ objects[id].status = FAILED
        /\ objects[id].error_message = <<(<<"transcription failed", "STT API Error">>)>>

\* the positions of the transcription requests answered with an empty text
SttEmptyTexts(id) ==
    {k \in CallsTo(id, "transcribe") :
        calls[id][k].outcome = "text" /\ Strip(calls[id][k].text) = <<>>}

\* C5: when the transcription returns an empty text, the scorer is not called
\* and the job still ends COMPLETED, with score 0 and an empty analysis.
C5_EmptyTranscriptCompletes ==
    \A id \in Created :
        SttEmptyTexts(id) # {} =>
            /\ objects[id].status = COMPLETED
            /\ objects[id].accuracy_score = Num(0)
            /\ objects[id].llm_analysis = <<>>
            /\ CallsTo(id, "score") = {}

\* the value within [0, 100] nearest to n
Clamped(n) == IF n < ScoreLow THEN ScoreLow ELSE IF n > ScoreHigh THEN ScoreHigh ELSE n

C7_ScoreOnlyWhenCompleted ==
    \A id \in Created :
        objects[id].status # COMPLETED => objects[id].accuracy_score = Num(0)

\* C7 witness: one job completed with score 95 while another failed in the
\* scoring step, its scoring request raising, with score 0
C7_Witness ==
    \E a, b \in Created :
        /\ objects[a].status = COMPLETED
        /\ objects[a].accuracy_score = Num(95)
        /\ objects[b].status = FAILED
        /\ CallsTo(b, "score") # {}
        /\ Last(calls[b]).outcome = "Exception"
        /\ objects[b].accuracy_score = Num(0)

\* C8: a job has an error_message exactly when it is FAILED, and a FAILED job
\* of the registry stays there, with that status and message, through every
\* operation but a delete or a cleanup.
C8_FailedStaysQueryable ==
    /\ [](\A id \in Created :
            objects[id].error_message # <<>> <=> objects[id].status = FAILED)
    /\ [][\A id \in test_results :
            objects[id].status = FAILED =>
                \/ /\ id \in test_results'
                   /\ objects'[id].status = FAILED
                   /\ objects'[id].error_message = objects[id].error_message
                \/ last'.op \in {"delete_test", "cleanup_old_tests"}]_vars

\* C8 witness: a FAILED job has just been read from the registry while the
\* other job is still running
C8_Witness ==
    \E id, other \in Created :
        /\ id \in test_results
        /\ objects[id].status = FAILED
        /\ objects[id].error_message # <<>>
        /\ objects[other].status = RUNNING
        /\ last = Op("get_test_result", id, 200)

\* C9: with the orchestrator ready, a submit of an empty or whitespace-only
\* script is answered with the validation status 400, creates no TestResult,
\* leaves the registry unchanged and schedules no run.
C9_BlankScriptRejected ==
    [][\A script \in {ScriptEmpty, ScriptBlank} :
        (test_orchestrator /\ start_test(script)) =>
            /\ last'.code = 400
            /\ UNCHANGED <<objects, test_results, tasks, calls>>]_vars

\* C10: when start_test returns a job id, the job is in the registry under
\* that id, PENDING, with its run scheduled and not started: no step has run
\* and no collaborator has been called for it.
C10_SubmitReturnsPending ==
    (last.op = "start_test" /\ last.code = 200) =>
        /\ last.test_id \in test_results
        /\ objects[last.test_id].test_id = last.test_id
        /\ objects[last.test_id].status = PENDING
        /\ tasks[last.test_id].pc = "scheduled"
        /\ tasks[last.test_id].statuses = <<PENDING>>
        /\ calls[last.test_id] = <<>>

\* C10 witness: a second job has just been submitted while the first one is
\* suspended in its pipeline
C10_Witness ==
    /\ last = Op("start_test", 2, 200)
    /\ objects[1].status = RUNNING
    /\ tasks[1].pc = "stt"
    /\ objects[2].status = PENDING

\* the ids that were given to a job no longer in the registry
Removed == Created \ test_results

\* C11: a delete of a RUNNING job of the registry is answered with the error
\* status 400 and leaves the registry as it was; a delete of a PENDING,
\* COMPLETED or FAILED job succeeds and removes that key and no other; a key
\* once removed never comes back, and the status, result and report handlers
\* answer 404 for it and the list handler does not list it.
C11_Delete ==
    /\ [][\A id \in JobIds :
            (id \in test_results /\ delete_test(id)) =>
                IF objects[id].status = RUNNING
                THEN last'.code = 400 /\ test_results' = test_results
                ELSE last'.code = 200 /\ test_results' = test_results \ {id}]_vars
    /\ [][\A id \in Removed : id \notin test_results']_vars
    /\ [](\A id \in Removed :
            /\ get_test_status_code(id) = 404
            /\ Lookup(id, "to_dict") = 404
            /\ get_test_report_code(id) = 404
            /\ \A limit \in Limits : id \notin list_tests_ids(limit))

\* C11 witness: a delete of a RUNNING job has just been refused, after a
\* completed job was deleted
C11_Witness ==
    \E a, b \in Created :
        /\ last = Op("delete_test", b, 400)
        /\ objects[b].status = RUNNING
        /\ b \in test_results
        /\ objects[a].status = COMPLETED
        /\ a \in Removed

\* C12: for every retention window, cleanup removes exactly the COMPLETED and
\* FAILED jobs whose timestamp is before the cutoff; PENDING and RUNNING jobs,
\* and jobs not before the cutoff, stay in the registry.
C12_CleanupTerminalOnly ==
    [][\A days \in 0..MaxTime :
        cleanup_old_tests(days) =>
            test_results \ test_results' =
                {id \in test_results :
                    /\ objects[id].status \in {COMPLETED, FAILED}
                    /\ objects[id].timestamp < now - days}]_vars

\* the handlers that take a job id
IdHandlers == {"get_test_status", "get_test_result", "get_test_report", "delete_test"}

\* C13: get_test_status, get_test_result, get_test_report and delete_test
\* called with an id that is not in the registry, whether never submitted or
\* already deleted, answer 404 and change neither the registry nor any
\* TestResult nor its run.
C13_NotFound ==
    [][(last'.op \in IdHandlers /\ last'.test_id \notin test_results) =>
            /\ last'.code = 404
            /\ UNCHANGED <<test_results, objects, tasks, calls>>]_vars

\* C13 witness: the report of a job that completed and was then deleted has
\* just been asked for
C13_Witness ==
    /\ last = Op("get_test_report", 1, 404)
    /\ 1 \in Removed
    /\ objects[1].status = COMPLETED

C15_Ownership ==
    /\ [](\A id \in Created : objects[id].status = RUNNING => id \in test_results)
    /\ [][\A id \in Removed :
            /\ objects'[id] = objects[id]
            /\ tasks'[id] = tasks[id]
            /\ calls'[id] = calls[id]]_vars

\* the number of times RUNNING was assigned to the status of job id
TimesRunning(id) ==
    Cardinality({k \in 1..Len(tasks[id].statuses) : tasks[id].statuses[k] = RUNNING})

\* C16: each job has exactly one background run, scheduled by its submit: no
\* run before the task starts, and from then on RUNNING has been assigned
\* exactly once, the simulation, the storage and the transcription have been
\* called at most once, and the synthesis at most once per recognized line,
\* whatever the handlers and the other jobs do.
C16_OneRun ==
    /\ Len(tasks) = Len(objects)
    /\ Len(calls) = Len(objects)
    /\ \A id \in Created :
          /\ TimesRunning(id) = IF tasks[id].pc = "scheduled" THEN 0 ELSE 1
          /\ tasks[id].pc = "scheduled" => calls[id] = <<>>
          /\ \A name \in {"simulate", "store", "transcribe"} :
                Cardinality(CallsTo(id, name)) <= 1
          /\ Cardinality(CallsTo(id, "synthesize"))
                <= Len(parse_content(objects[id].original_script))

\* C16 witness: one job has run to its end and been read, the other is
\* suspended in its scoring request
C16_Witness ==
    \E a, b \in Created :
        /\ Done(a)
        /\ TimesRunning(a) = 1
        /\ tasks[b].pc = "llm"
        /\ TimesRunning(b) = 1
        /\ last = Op("get_test_result", a, 200)

\* C17: under every interleaving of submits, queries, deletes, cleanups and
\* the steps of several runs, every key of the registry maps to a complete
\* TestResult, with that key as its test_id, a non-blank script, a timestamp
\* that is not in the future and a status; and no handler that found a key
\* fails on using it: a result query, a delete and a cleanup never answer 500.
C17_RegistryConsistent ==
    /\ \A id \in test_results :
          /\ id \in Created
          /\ objects[id].test_id = id
          /\ Strip(objects[id].original_script) # <<>>
          /\ objects[id].timestamp \in 0..now
          /\ objects[id].status \in TestStatus
    /\ last.op \in {"get_test_result", "delete_test", "cleanup_old_tests"} =>
          last.code \in {200, 400, 404}

\* C17 witness: with a RUNNING and a FAILED job in the registry, the FAILED
\* one has just been read
C17_Witness ==
    \E a, b \in test_results :
        /\ objects[a].status = RUNNING
        /\ tasks[a].pc = "stt"
        /\ objects[b].status = FAILED
        /\ last = Op("get_test_result", b, 200)

\* what a run has made of job id: its fields, its task and its calls
JobState(id) == <<objects[id], tasks[id], calls[id]>>

\* the fields of a TestResult that a run writes
RunFields(r) ==
    <<r.status, r.tts_audio, r.mock_response_audio, r.transcribed_text,
      r.llm_analysis, r.accuracy_score, r.error_message>>

\* C18: with several jobs in flight, a step changes the fields, the task and
\* the calls of one job at most, and every other job is left as it was; and
\* what a job has become depends on its script and on its collaborators'
\* responses only, not on the interleaving: two jobs with the same script, at
\* the same point of their runs after the same responses, have the same status,
\* fields and score.
C18_JobsIsolated ==
    /\ [][\A id \in Created :
            JobState(id)' # JobState(id) =>
                \A other \in Created \ {id} : JobState(other)' = JobState(other)]_vars
    /\ [](\A a, b \in Created :
            (/\ objects[a].original_script = objects[b].original_script
             /\ calls[a] = calls[b]
             /\ tasks[a].pc = tasks[b].pc) =>
                RunFields(objects[a]) = RunFields(objects[b]))

\* C18 witness: two jobs with the same script; one has completed with score
\* 95 and the other, whose synthesis request failed, has ended FAILED
C18_Witness ==
    \E a, b \in Created :
        /\ objects[a].original_script = objects[b].original_script
        /\ objects[a].status = COMPLETED
        /\ objects[a].accuracy_score = Num(95)
        /\ objects[b].status = FAILED
        /\ objects[b].accuracy_score = Num(0)
        /\ Last(calls[b]).call = "synthesize"

\* job id is suspended in a request to one of its backends
Suspended(id) == tasks[id].pc \in {"tts", "stt", "llm"}

\* the next step of the run of job id
RunStep(id) ==
    \/ Dispatch(id)
    \/ \E out \in TtsSample, sim \in SimSample, store \in StoreSample, file \in FileSample :
          TtsReturn(id, out, sim, store, file)
    \/ \E out \in SttSample : SttReturn(id, out)
    \/ \E out \in LlmSample : LlmReturn(id, out)

\* C19: while a job is suspended in a synthesis, transcription or scoring
\* request, and without that request ever returning, the run of every other
\* unfinished job can take its next step, a new job can be submitted, and the
\* status and the result of every job can be asked for.
C19_NonBlocking ==
    [](\A a \in Created :
        Suspended(a) =>
            /\ \A b \in Created \ {a} : ~Done(b) => ENABLED RunStep(b)
            /\ Len(objects) < MaxJobs => ENABLED start_test(ScriptOne)
            /\ \A id \in JobIds : ENABLED get_test_status(id) /\ ENABLED get_test_result(id))

\* C19 witness: the second job was submitted, ran and completed while the
\* first one was, and still is, suspended in its first synthesis request
C19_Witness ==
    /\ Len(objects) = 2
    /\ tasks[1].pc = "tts"
    /\ Len(calls[1]) = 1
    /\ objects[2].status = COMPLETED
    /\ last = Op("get_test_result", 2, 200)

\* the entry of capability name in the services of the answer, as a set
ServiceEntry(name) ==
    {probe.response[1].services[k].ok :
        k \in {j \in 1..Len(probe.response[1].services) :
                    probe.response[1].services[j].name = name}}

\* the outcome of the probe of backend in the request, as a set
ProbeOutcome(backend) ==
    {probe.log[k].outcome : k \in {j \in 1..Len(probe.log) : probe.log[j].probe = backend}}

\* C20: get_service_status never raises: a status request made with the
\* orchestrator ready is answered with the services, never with the answer of
\* an exception; the three probes have all run, in whatever way each ended,
\* and the answer has one entry per capability, true exactly when its probe
\* succeeded.
C20_ProbesIsolated ==
    (test_orchestrator /\ probe.response # <<>>) =>
        /\ last.code = 200
        /\ probe.response[1].status \in {"healthy", "partial"}
        /\ Len(probe.log) = 3
        /\ <<probe.log[1].probe, probe.log[2].probe, probe.log[3].probe>> = <<"tts", "stt", "llm">>
        /\ ServiceEntry("tts (yating)") = {ProbeOutcome("tts") = {"ok"}}
        /\ ServiceEntry("stt (gpt-4o-transcribe)") = {ProbeOutcome("stt") = {"listed"}}
        /\ ServiceEntry("llm (gpt-4o)") = {ProbeOutcome("llm") = {"content"}}

\* C20 witness: the synthesis probe raised, the transcription probe succeeded
\* and the scoring probe raised an error its service does not catch
C20_Witness ==
    /\ probe.response # <<>>
    /\ ProbeOutcome("tts") = {"HTTPStatusError"}
    /\ ProbeOutcome("stt") = {"listed"}
    /\ ProbeOutcome("llm") = {"no_content"}
    /\ ServiceEntry("tts (yating)") = {FALSE}
    /\ ServiceEntry("stt (gpt-4o-transcribe)") = {TRUE}
    /\ ServiceEntry("llm (gpt-4o)") = {FALSE}
    /\ probe.response[1].status = "partial"

\* the scoring backend answered the call with a message content
ScoreReturned(c) == c.outcome \in {"not_json", "non_object", "object_no_score", "object"}

Malformed(c) ==
    \/ c.outcome \in {"not_json", "non_object", "object_no_score"}
    \/ c.outcome = "object" /\ c.raw.t \in {"str", "null"}

\* C22: when the scoring backend returns a malformed response, the job
\* records an analysis with accuracy_score 0 and ends COMPLETED with score 0.
C22_MalformedDegraded ==
    \A id \in Created :
        (Done(id) /\ calls[id] # <<>> /\ Last(calls[id]).call = "score"
                  /\ Malformed(Last(calls[id]))) =>
            /\ objects[id].status = COMPLETED
            /\ objects[id].llm_analysis # <<>>
            /\ objects[id].llm_analysis[1].accuracy_score = Num(0)
            /\ objects[id].accuracy_score = Num(0)

\* the part of a line before its first colon, trimmed and in lower case
LabelOf(line) == Lower(Strip(SubSeq(line, 1, IndexOf(line, ":", 1) - 1)))

CustomerLabels == {<<"kehu">>, <<"customer">>}
AgentLabels == {<<"kefu">>, <<"agent">>}

\* the line carries a recognized role label followed by a colon
Labelled(line) ==
    /\ IndexOf(line, ":", 1) > 0
    /\ LabelOf(line) \in CustomerLabels \cup AgentLabels

\* what the lines of a script say: for each labelled line, in order, the
\* speaker of its label and the trimmed text after its first colon
DialogueOf(content) ==
    LET ls == SelectSeq(SplitLines(content), Labelled) IN
    [k \in 1..Len(ls) |->
        [speaker |-> IF LabelOf(ls[k]) \in CustomerLabels THEN "customer" ELSE "agent",
         text |-> Strip(SubSeq(ls[k], IndexOf(ls[k], ":", 1) + 1, Len(ls[k]))),
         pause_after |-> 1]]

MovedAudio(audio, dir) ==
    IF audio = <<>> THEN <<>>
    ELSE <<[audio[1] EXCEPT !.file_path.dir = dir]>>

\* the same TestResult with its artifacts under another internal directory
Moved(result, dir) ==
    [result EXCEPT !.tts_audio = MovedAudio(@, dir),
                   !.mock_response_audio = MovedAudio(@, dir)]

\* C24: the snapshot get_test_result returns for a job does not depend on the
\* internal directory of the job's artifacts: it would be the same snapshot
\* had they been stored under another directory.
C24_NoInternalPath ==
    \A id \in Created :
        (last.op = "get_test_result" /\ last.test_id = id /\ last.code = 200) =>
            to_dict(objects[id]) = to_dict(Moved(objects[id], "/srv/data/audio"))

\* C25: the report of a COMPLETED job carries the grade of the band its
\* score falls in: excellent from 90, good from 80 to below 90, fair from 70
\* to below 80, needs improvement below 70; the report of a job that is not
\* COMPLETED carries no grade.
C25_GradeBands ==
    \A id \in Created :
        (last.op = "get_test_report" /\ last.test_id = id /\ id \in test_results) =>
            LET score == objects[id].accuracy_score.v
                grade == get_test_report_grade(id)
            IN  IF objects[id].status = COMPLETED
                THEN /\ score >= 90 => grade = <<"excellent">>
                     /\ (80 <= score /\ score < 90) => grade = <<"good">>
                     /\ (70 <= score /\ score < 80) => grade = <<"fair">>
                     /\ score < 70 => grade = <<"poor">>
                ELSE grade = <<>>

\* the collaborator call returned what its step needs to succeed
Succeeded(c) ==
    CASE c.call \in {"synthesize", "simulate", "store"} -> c.outcome = "ok"
      [] c.call = "transcribe" -> c.outcome = "text" /\ Strip(c.text) # <<>>
      [] OTHER -> ScoreReturned(c) /\ c.outcome # "non_object"

\* call c, the k-th of a job whose script has n lines, may come next after
\* call b: the next line of the synthesis or the next step, after a success,
\* or the retry of the scoring call
MayFollow(b, c, k, n) ==
    CASE c.call = "synthesize" -> b.call = "synthesize" /\ Succeeded(b) /\ k <= n
      [] c.call = "simulate" -> b.call = "synthesize" /\ Succeeded(b) /\ k = n + 1
      [] c.call = "store" -> b.call = "simulate" /\ Succeeded(b)
      [] c.call = "transcribe" -> b.call = "store" /\ Succeeded(b)
      [] OTHER -> \/ b.call = "transcribe" /\ Succeeded(b)
                  \/ b.call = "score" /\ b.outcome = "APIError"

\* C26: the collaborators of one job are called in the order synthesize (once
\* per line), simulate, store, transcribe, score, each call made only after
\* the one before it has returned successfully, none skipped, none repeated
\* but the scoring retry, never two in flight; the status is COMPLETED only
\* once the scoring has returned and its score has been stored by finalize.
C26_StepOrder ==
    \A id \in Created :
        LET n == Len(parse_content(objects[id].original_script)) IN
        /\ \A k \in 1..Len(calls[id]) :
              /\ calls[id][k].outcome = "pending" => (k = Len(calls[id]) /\ ~Done(id))
              /\ k = 1 => calls[id][k].call = "synthesize"
              /\ k > 1 => MayFollow(calls[id][k - 1], calls[id][k], k, n)
        /\ objects[id].status = COMPLETED =>
              /\ Done(id)
              /\ calls[id] # <<>>
              /\ Last(calls[id]).call = "score"
              /\ Succeeded(Last(calls[id]))
              /\ objects[id].llm_analysis # <<>>
              /\ objects[id].accuracy_score = objects[id].llm_analysis[1].accuracy_score
              /\ Last(tasks[id].statuses) = COMPLETED

\* C26 witness: a job of two lines has completed after exactly these calls
C26_Witness ==
    \E id \in Created :
        /\ objects[id].status = COMPLETED
        /\ [k \in 1..Len(calls[id]) |-> calls[id][k].call] =
              <<"synthesize", "synthesize", "simulate", "store", "transcribe", "score">>
        /\ objects[id].accuracy_score = Num(95)

\* the collaborator call raised, or returned what fails its step
Failed(c) == c.outcome # "pending" /\ ~Succeeded(c)

\* C27: once an exception has been raised in a step of a job, the job is over
\* and FAILED; the call that failed, if any, is the last one made for the
\* job, but for a scoring call that raised an API error and was retried; and
\* from then on no collaborator is called for the job and nothing of it changes.
C27_NoStepAfterFailure ==
    /\ [](\A id \in Created :
            /\ tasks[id].errors # <<>> => (Done(id) /\ objects[id].status = FAILED)
            /\ \A k \in 1..Len(calls[id]) :
                  Failed(calls[id][k]) =>
                     \/ k = Len(calls[id]) /\ tasks[id].errors # <<>>
                     \/ /\ calls[id][k].call = "score"
                        /\ calls[id][k].outcome = "APIError"
                        /\ k < Len(calls[id])
                        /\ calls[id][k + 1].call = "score")
    /\ [][\A id \in Created :
            tasks[id].errors # <<>> =>
                /\ calls'[id] = calls[id]
                /\ tasks'[id] = tasks[id]
                /\ objects'[id] = objects[id]]_vars

\* C27 witness: the simulated call failed after two lines were synthesized;
\* neither storage nor transcription nor scoring was called and the job is FAILED
C27_Witness ==
    \E id \in Created :
        /\ [k \in 1..Len(calls[id]) |-> calls[id][k].call] =
              <<"synthesize", "synthesize", "simulate">>
        /\ Failed(Last(calls[id]))
        /\ objects[id].status = FAILED
        /\ Done(id)

\* the fields of a TestResult that a step has populated
Populated(result) ==
    {a \in {"tts_audio", "mock_response_audio", "transcribed_text", "llm_analysis"} :
        result[a] # <<>>}

\* the step in which the run of a FAILED job raised: the step of the call made
\* last, or the step after it when that call succeeded
FailedStep(id) ==
    IF calls[id] = <<>> THEN "synthesize"
    ELSE IF Last(calls[id]).call = "store" /\ Succeeded(Last(calls[id])) THEN "transcribe"
    ELSE Last(calls[id]).call

\* the TestResult of a run of ScriptOne in which the storage call raised
StoreFailedRun ==
    LET f0 == Frame(TestResult(1, 0, ScriptOne), Scheduled, <<>>)
        f1 == step1_begin(run_full_test_enter(f0))
        f2 == step1_resume([f1 EXCEPT !.wait = "none"], "ok")
        f3 == step3_store_audio(step2_simulate_call(f2, "ok"), "source_missing")
    IN  run_full_test_exit(f3).result

\* C28: a run that failed in another step than storage ends with a set of
\* populated fields different from that of a run that failed in the storage step.
C28_FailedStepInferable ==
    \A id \in Created :
        (Done(id) /\ objects[id].status = FAILED /\ FailedStep(id) # "store") =>
            Populated(objects[id]) # Populated(StoreFailedRun)

\* C29: within one job the synthesis backend is called at most once per
\* dialogue line, the k-th call being for the k-th line, and the simulation,
\* the storage and the transcription are called at most once each; a call of
\* one of these four that fails is the last call of the job, which is over
\* and FAILED.
C29_NoOtherRetry ==
    \A id \in Created :
        LET dialogue_lines == parse_content(objects[id].original_script) IN
        /\ Cardinality(CallsTo(id, "synthesize")) <= Len(dialogue_lines)
        /\ \A k \in CallsTo(id, "synthesize") :
              k <= Len(dialogue_lines) /\ calls[id][k].arg = <<dialogue_lines[k].text>>
        /\ \A name \in {"simulate", "store", "transcribe"} :
              Cardinality(CallsTo(id, name)) <= 1
        /\ \A k \in 1..Len(calls[id]) :
              (calls[id][k].call # "score" /\ Failed(calls[id][k])) =>
                  /\ k = Len(calls[id])
                  /\ Done(id)
                  /\ objects[id].status = FAILED

\* C29 witness: the synthesis of the second line failed on its only request
\* and the job is FAILED after two synthesis calls
C29_Witness ==
    \E id \in Created :
        /\ Len(calls[id]) = 2
        /\ calls[id][1].call = "synthesize" /\ calls[id][1].outcome = "ok"
        /\ calls[id][2].call = "synthesize" /\ calls[id][2].outcome = "RequestError"
        /\ calls[id][1].arg # calls[id][2].arg
        /\ objects[id].status = FAILED

\* C30: a job whose script has no recognized line ends FAILED without a
\* synthesis request; a job one of whose synthesis requests fails ends FAILED
\* with that request its last call, so that no later line is synthesized; in
\* both cases tts_audio is absent when the job is over.
C30_SynthesisFails ==
    \A id \in Created :
        /\ (tasks[id].pc # "scheduled"
               /\ parse_content(objects[id].original_script) = <<>>) =>
              /\ calls[id] = <<>>
              /\ Done(id)
              /\ objects[id].status = FAILED
              /\ objects[id].tts_audio = <<>>
        /\ \A k \in CallsTo(id, "synthesize") :
              Failed(calls[id][k]) =>
                  /\ k = Len(calls[id])
                  /\ Done(id)
                  /\ objects[id].status = FAILED
                  /\ objects[id].tts_audio = <<>>

\* C30 witness: the first line was synthesized, the response for the second
\* had no audio content, and the job is FAILED without tts_audio
C30_Witness ==
    \E id \in Created :
        /\ Len(parse_content(objects[id].original_script)) = 2
        /\ Len(calls[id]) = 2
        /\ calls[id][1].outcome = "ok"
        /\ calls[id][2].outcome = "no_audioContent"
        /\ objects[id].status = FAILED
        /\ objects[id].tts_audio = <<>>
        /\ objects[id].error_message # <<>>

\* the tokens of a sequence
Range(q) == {q[k] : k \in 1..Len(q)}

\* the label, as written, of every labelled line of a text
LabelTokens(text) ==
    {Head(LStrip(line)) : line \in {l \in Range(SplitLines(text)) : Labelled(l)}}

\* the words of a text that are not the label of a line: those after the
\* first colon of a labelled line and those of the other lines
ContentWords(text) ==
    UNION {IF Labelled(line)
           THEN Range(SubSeq(line, IndexOf(line, ":", 1) + 1, Len(line)))
           ELSE Range(line) : line \in Range(SplitLines(text))}

\* what the scorer is to see of text: no label of a line of text, no
\* punctuation, no two whitespace characters in a row, and nothing that a
\* second normalization would change
Normalized(text, seen) ==
    /\ \A t \in LabelTokens(text) \ ContentWords(text) : t \notin Range(seen)
    /\ Range(seen) \cap Punctuation = {}
    /\ \A k \in 1..(Len(seen) - 1) :
          ~(seen[k] \in Whitespace /\ seen[k + 1] \in Whitespace)
    /\ NormalizeText(seen) = seen

\* C31: the two texts of every scoring call are the original script and the
\* transcript without the role label of any of their lines, without
\* punctuation and without a run of whitespace, and normalizing them again
\* changes nothing.
C31_ScorerSeesNormalized ==
    \A id \in Created : \A k \in CallsTo(id, "score") :
        /\ Len(calls[id][k].arg) = 2
        /\ Normalized(objects[id].original_script, calls[id][k].arg[1])
        /\ Normalized(objects[id].transcribed_text, calls[id][k].arg[2])

\* the fields under which the handlers of routes.py look for the storage
\* identifier and for the confidence of the transcription
StoreAndConfidenceFields == {"storage_file_id", "stt_confidence"}

\* C32: a COMPLETED job carries, on the TestResult and in the snapshot that
\* get_test_result returns, the identifier the storage returned and the
\* confidence of the transcription, beside the transcribed text.
C32_IdAndConfidenceRecorded ==
    \A id \in Created :
        (Done(id) /\ objects[id].status = COMPLETED) =>
            /\ \A k \in CallsTo(id, "transcribe") :
                  objects[id].transcribed_text = Strip(calls[id][k].text)
            /\ StoreAndConfidenceFields \subseteq DOMAIN objects[id]
            /\ StoreAndConfidenceFields \subseteq DOMAIN to_dict(objects[id])

\* C33: every DialogueLine parse_content returns, and leaves in
\* dialogue_lines, has a non-empty text.
C33_NonEmptyText ==
    /\ \A k \in 1..Len(test_script.returned) :
          \A j \in 1..Len(test_script.returned[k]) :
              test_script.returned[k][j].text # <<>>
    /\ \A j \in 1..Len(test_script.dialogue_lines) :
          test_script.dialogue_lines[j].text # <<>>

\* C34: whenever the run of a job comes to the transcribe step, the storage
\* having succeeded, with a response audio file that is missing, smaller than
\* 1024 bytes or larger than 25 * 1024 * 1024 bytes, the transcription backend
\* is not called and the job is over and FAILED; with any other file, one of
\* exactly 1024 or exactly 25 * 1024 * 1024 bytes included, the transcription
\* request is made and the job waits for it.
C34_SizeBounds ==
    [][\A id \in Created : \A out \in TtsOutcomes : \A sim \in SimOutcomes :
       \A store \in StoreOutcomes : \A file \in FileStates :
         (/\ TtsReturn(id, out, sim, store, file)
          /\ \E k \in 1..Len(calls'[id]) :
                calls'[id][k].call = "store" /\ calls'[id][k].outcome = "ok") =>
            IF ~file.exists \/ file.size < 1024 \/ file.size > 25 * 1024 * 1024
            THEN /\ \A k \in 1..Len(calls'[id]) : calls'[id][k].call # "transcribe"
                 /\ tasks'[id].pc = "done"
                 /\ objects'[id].status = FAILED
                 /\ objects'[id].transcribed_text = <<>>
            ELSE /\ calls'[id][Len(calls'[id])].call = "transcribe"
                 /\ calls'[id][Len(calls'[id])].outcome = "pending"
                 /\ tasks'[id].pc = "stt"
                 /\ objects'[id].status = RUNNING]_vars

\* C34 witness: the file was smaller than 1024 bytes; the job is FAILED after
\* the storage call, the transcription backend not called
C34_Witness ==
    \E id \in Created :
        /\ Done(id)
        /\ objects[id].status = FAILED
        /\ objects[id].error_message = <<(<<"file too small">>)>>
        /\ Last(calls[id]).call = "store"
        /\ Last(calls[id]).outcome = "ok"
        /\ CallsTo(id, "transcribe") = {}

\* the status is COMPLETED or FAILED
Terminal(id) == objects[id].status \in {COMPLETED, FAILED}

\* C35: provided the scheduled run is started and every backend request
\* returns or raises, every submitted job eventually is COMPLETED or FAILED,
\* and so does a job that is deleted from the registry while still PENDING.
C35_Terminates ==
    /\ <>(\A id \in Created : Terminal(id))
    /\ \A id \in {1} :
          (id \notin test_results /\ objects[id].status = PENDING) ~> Terminal(id)

\* C35 witness: the run of a job deleted before it started has just ended
C35_Witness ==
    \E id \in Created :
        /\ id \notin test_results
        /\ Terminal(id)
        /\ last.op = "run_test_async"

====
